---------------------------- MODULE Spec2Model ----------------------------
(***************************************************************************)
(* Model of the authentication service of the unified dashboard            *)
(* (src/auth/unified_auth.py) together with the dashboard handlers of      *)
(* src/app.py that touch the same session state.                           *)
(*                                                                         *)
(* Strings are sequences of one-character strings.  SHA-256 and bcrypt are *)
(* library functions; they are modelled as deterministic digests of the    *)
(* right output shape (64 hex characters; "$2b$12$" + 22 + 31 characters)  *)
(* that are collision free on the bounded input pools used here.           *)
(***************************************************************************)
EXTENDS Integers, Sequences, FiniteSets, TLC

(***************************************************************************)
(* Strings                                                                 *)
(***************************************************************************)
Alphabet ==
  << "$", "0", "1", "2", "3", "4", "5", "6", "7", "8", "9",
     "a", "b", "c", "d", "e", "f", "g", "h", "i", "j", "k", "l", "m",
     "n", "o", "p", "q", "r", "s", "t", "u", "v", "w", "x", "y", "z" >>

HexDigits ==
  << "0", "1", "2", "3", "4", "5", "6", "7", "8", "9",
     "a", "b", "c", "d", "e", "f" >>

CharCodes ==
  [ c \in { Alphabet[i] : i \in 1..Len(Alphabet) } |->
      CHOOSE i \in 1..Len(Alphabet) : Alphabet[i] = c ]

CharCode(c) == CharCodes[c]

Repeat(c, n) == [i \in 1..n |-> c]

\* str.startswith(prefix)
StartsWith(s, prefix) ==
  /\ Len(s) >= Len(prefix)
  /\ SubSeq(s, 1, Len(prefix)) = prefix

\* c in s
Contains(s, c) == \E i \in 1..Len(s) : s[i] = c

\* index of the first occurrence of c in s (s contains c)
FirstIndex(s, c) ==
  CHOOSE i \in 1..Len(s) : s[i] = c /\ \A j \in 1..(i - 1) : s[j] # c

\* s.split(c, 1) for a string that contains c: <<head, tail>>
Split1(s, c) ==
  LET i == FirstIndex(s, c)
  IN  << SubSeq(s, 1, i - 1), SubSeq(s, i + 1, Len(s)) >>

(***************************************************************************)
(* Digests                                                                 *)
(***************************************************************************)
\* the sum over the positions lo..hi of s of the character code weighted by
\* the position, by halving
RECURSIVE WeightedSum(_, _, _)
WeightedSum(s, lo, hi) ==
  IF lo > hi THEN 0
  ELSE IF lo = hi THEN (CharCode(s[lo]) * (2 * lo + 1)) % 65536
  ELSE LET mid == (lo + hi) \div 2
       IN  (WeightedSum(s, lo, mid) + WeightedSum(s, mid + 1, hi)) % 65536

\* a 16-bit digest of the string s
Fingerprint(s, seed) == (seed + 131 * Len(s) + WeightedSum(s, 1, Len(s))) % 65536

\* b to the power e
RECURSIVE Pow(_, _)
Pow(b, e) == IF e = 0 THEN 1 ELSE b * Pow(b, e - 1)

\* a digest of `width` characters over `digits`: the four base-Len(digits)
\* digits of the fingerprint n, repeated
Digits(n, width, digits) ==
  [ i \in 1..width |->
      digits[((n \div Pow(Len(digits), (i - 1) % 4)) % Len(digits)) + 1] ]

\* hashlib.sha256(s.encode()).hexdigest(): 64 hex characters
Sha256Hex(s) == Digits(Fingerprint(s, 7), 64, HexDigits)

\* bcrypt: "$2b$" marker, cost, 22 characters of salt, 31 of digest
BcryptMarker == << "$", "2", "b", "$" >>

BcryptCost == << "1", "2", "$" >>

BcryptHashpw(password, salt22) ==
  BcryptMarker \o BcryptCost \o salt22
    \o Digits(Fingerprint(password \o salt22, 11), 31, Alphabet)

BcryptWellFormed(stored) ==
  /\ Len(stored) = Len(BcryptMarker) + Len(BcryptCost) + 22 + 31
  /\ StartsWith(stored, BcryptMarker \o BcryptCost)

\* bcrypt.checkpw(password, stored): "raise" stands for ValueError("Invalid salt")
BcryptCheckpw(password, stored) ==
  IF ~BcryptWellFormed(stored) THEN "raise"
  ELSE LET salt22 == SubSeq(stored, Len(BcryptMarker) + Len(BcryptCost) + 1,
                            Len(BcryptMarker) + Len(BcryptCost) + 22)
       IN  IF BcryptHashpw(password, salt22) = stored THEN "true" ELSE "false"

(***************************************************************************)
(* verify_password / hash_password                                         *)
(***************************************************************************)
\* verify_password with the equality test moved in front of the bcrypt test
VerifyRuleEqualityFirst(password, stored_hash) ==
  IF stored_hash = password THEN "equal"
  ELSE IF StartsWith(stored_hash, BcryptMarker) THEN "bcrypt"
  ELSE IF Contains(stored_hash, "$") /\ Len(stored_hash) > 50 THEN "salted"
  ELSE IF Len(stored_hash) = 64 THEN "sha256"
  ELSE "fallback"

\* the branch of the if/elif chain of verify_password that decides
VerifyRule(password, stored_hash) ==
  IF StartsWith(stored_hash, BcryptMarker) THEN "bcrypt"
  ELSE IF stored_hash = password THEN "equal"
  ELSE IF Contains(stored_hash, "$") /\ Len(stored_hash) > 50 THEN "salted"
  ELSE IF Len(stored_hash) = 64 THEN "sha256"
  ELSE "fallback"

\* verify_password(password, stored_hash): the deciding branch and its verdict
VerifyPassword(password, stored_hash) ==
  LET rule == VerifyRule(password, stored_hash)
      ok ==
        CASE rule = "bcrypt" ->
               \* a ValueError of checkpw is caught: return False
               BcryptCheckpw(password, stored_hash) = "true"
          [] rule = "equal" -> TRUE
          [] rule = "salted" ->
               LET parts == Split1(stored_hash, "$")
               IN  Sha256Hex(password \o parts[1]) = parts[2]
          [] rule = "sha256" -> Sha256Hex(password) = stored_hash
          [] OTHER -> password = stored_hash
  IN  [rule |-> rule, ok |-> ok]

\* hash_password that writes the digest before the salt
HashPasswordDigestFirst(password, salt) ==
  Sha256Hex(password \o salt) \o << "$" >> \o salt

\* hash_password(password) with the salt secrets.token_hex(16) drew
HashPassword(password, salt) == salt \o << "$" >> \o Sha256Hex(password \o salt)

(***************************************************************************)
(* Bounds of the model                                                     *)
(***************************************************************************)
\* authenticate calls per behaviour
MaxCalls == 5

\* clock ticks per behaviour
MaxTicks == 3

(***************************************************************************)
(* Program constants                                                       *)
(***************************************************************************)
\* auth_config['max_login_attempts']
MaxLoginAttempts == 3

\* timedelta(minutes=15)
LockoutMinutes == 15

\* minutes the clock advances per tick
TickMinutes == 5

Projects == {"lead", "cpa", "prop"}

\* db_managers built with 'cpa' first
SearchOrderCpaFirst == << "cpa", "lead", "prop" >>

\* iteration order of self.db_managers (dict insertion order)
SearchOrder == << "lead", "cpa", "prop" >>

Usernames == {"alice", "bob"}

EmptyDict == [k \in {} |-> k]

None == << >>

(***************************************************************************)
(* Input pools                                                             *)
(***************************************************************************)
Pw1 == << "s", "3", "c", "r", "e", "t" >>

Pw2 == << "a", "d", "m", "i", "n", "1", "2", "3" >>

PwWrong == << "w", "r", "o", "n", "g" >>

\* a short password that contains "$"
PwDollar == << "a", "$", "b" >>

\* values of secrets.token_hex(16)
SaltA == Repeat("a", 32)

SaltB == Repeat("0", 32)

\* a bcrypt salt
BSalt == Repeat("k", 22)

\* a value with the bcrypt marker that is no bcrypt hash: checkpw raises
\* ValueError on it
BadBcrypt == BcryptMarker \o << "z", "z" >>

\* the row a tenant store holds for a username, when it holds one
RowOf(project_type, username) ==
  [ username |-> username,
    id |-> << project_type, username >>,
    email |-> << username, "mail" >>,
    first_name |-> << username, "first" >>,
    last_name |-> << username, "last" >>,
    role |-> CASE project_type = "lead" -> "admin"
               [] project_type = "cpa" -> "manager"
               [] OTHER -> "viewer",
    password_hash |->
      CASE project_type = "lead" /\ username = "alice" -> HashPassword(Pw1, SaltA)
        [] project_type = "lead" -> Sha256Hex(Pw2)
        [] project_type = "cpa" /\ username = "alice" -> BcryptHashpw(Pw2, BSalt)
        [] project_type = "cpa" -> BadBcrypt
        [] project_type = "prop" /\ username = "alice" -> Pw1
        [] OTHER -> HashPassword(Pw2, SaltB) ]

\* which usernames each users table holds, in the configurations explored
Presences ==
  { [lead |-> {"alice"}, cpa |-> {"alice"}, prop |-> {"alice"}],
    [lead |-> {}, cpa |-> {"alice"}, prop |-> {"bob"}],
    [lead |-> {}, cpa |-> {"bob"}, prop |-> {}] }

\* the contents the three users tables can have
StoreConfigs ==
  { [ p \in Projects |-> { RowOf(p, u) : u \in present[p] } ] :
      present \in Presences }

LoginPasswords == {Pw1, Pw2}

(***************************************************************************)
(* State                                                                   *)
(***************************************************************************)
VARIABLES
  authenticated,       \* st.session_state.authenticated
  user_info,           \* st.session_state.user_info
  login_attempts,      \* st.session_state.login_attempts
  last_login_attempt,  \* st.session_state.last_login_attempt: None or <<time>>
  current_project,     \* st.session_state.current_project
  user_role,           \* st.session_state.user_role (dashboard)
  current_page,        \* st.session_state.current_page (dashboard)
  stores,              \* the users table of each tenant
  now,                 \* datetime.now(), in minutes
  calls,               \* authenticate calls made so far
  succeeded,           \* some authenticate call has succeeded
  last,                \* the last operation and what it returned
  vp,                  \* the last verify_password call made on its own
  assistant,           \* the UnifiedAIAssistant of the running script: the
                       \* session that runs it and its self.cache
  network_requests,    \* requests.post calls made so far
  auth_config          \* self.auth_config, the dict get_auth_config() returns

vars == << authenticated, user_info, login_attempts, last_login_attempt,
           current_project, user_role, current_page, stores, now, calls,
           succeeded, last, vp, assistant, network_requests, auth_config >>

\* the variables of the inference client
aivars == << assistant, network_requests >>

NoReturn == [success |-> FALSE, message |-> << >>, user_data |-> EmptyDict]

NoCall ==
  [ password |-> << >>, username |-> "", op |-> "none", allowed |-> TRUE,
    queried |-> << >>, raised |-> {}, project_found |-> "None",
    cause |-> "none", ret |-> NoReturn ]

NoVerify ==
  [ password |-> << >>, stored_hash |-> << >>, rule |-> "none",
    ok |-> FALSE, op |-> "none", encoding |-> "none", plaintext |-> << >> ]

\* dict.get(key, default)
Get(d, key, default) == IF key \in DOMAIN d THEN d[key] ELSE default

\* the auth_config of _init_auth_config, as far as the auth system reads it
DefaultAuthConfig ==
  [ max_login_attempts |-> MaxLoginAttempts, session_timeout |-> 3600 ]

\* _init_session_state of the auth system and of the dashboard
InitSession ==
  /\ authenticated = FALSE
  /\ user_info = EmptyDict
  /\ login_attempts = 0
  /\ last_login_attempt = None
  /\ current_project = "lead"
  /\ user_role = "None"
  /\ current_page = "dashboard"

\* UnifiedAIAssistant.__init__ in the script run of session s: self.cache = {}
NewAssistant(s) == [cache |-> EmptyDict, session |-> s]

InitAssistant ==
  /\ assistant = NewAssistant(1)
  /\ network_requests = 0

Init ==
  /\ InitSession
  /\ InitAssistant
  /\ auth_config = DefaultAuthConfig
  /\ stores \in StoreConfigs
  /\ now = 0
  /\ calls = 0
  /\ succeeded = FALSE
  /\ last = NoCall
  /\ vp = NoVerify

(***************************************************************************)
(* Authentication service                                                  *)
(***************************************************************************)
MsgLocked == << "Troppi tentativi di login. Riprova tra 15 minuti." >>

MsgNotFound == << "Utente non trovato" >>

MsgWrongPassword == << "Password errata" >>

MsgWelcome(name) == << "Benvenuto", name >>

\* self.auth_config.get('max_login_attempts', 3)
max_attempts == Get(auth_config, "max_login_attempts", 3)

\* check_rate_limit with > in place of >=
CheckRateLimitAboveMax ==
  IF login_attempts > max_attempts
  THEN IF last_login_attempt # None
       THEN IF now - last_login_attempt[1] < LockoutMinutes THEN FALSE ELSE TRUE
       ELSE TRUE
  ELSE TRUE

\* check_rate_limit()
CheckRateLimit ==
  IF login_attempts >= max_attempts
  THEN IF last_login_attempt # None
       THEN IF now - last_login_attempt[1] < LockoutMinutes THEN FALSE ELSE TRUE
       ELSE TRUE
  ELSE TRUE

\* response.data of table('users').select('*').eq('username', username)
Select(project_type, username) ==
  LET rows == { r \in stores[project_type] : r.username = username }
  IN  IF rows = {} THEN << >> ELSE << CHOOSE r \in rows : TRUE >>

\* the loop over self.db_managers with a lookup error that ends the search
RECURSIVE FindUserStopsAtRaise(_, _, _, _, _)
FindUserStopsAtRaise(username, raising, i, queried, raised) ==
  IF i > Len(SearchOrder)
  THEN [ queried |-> queried, raised |-> raised, project_found |-> "None",
         data |-> << >> ]
  ELSE LET p == SearchOrder[i]
       IN  IF p \in raising
           THEN [ queried |-> Append(queried, p), raised |-> raised \cup {p},
                  project_found |-> "None", data |-> << >> ]
           ELSE IF Select(p, username) # << >>
                THEN [ queried |-> Append(queried, p), raised |-> raised,
                       project_found |-> p, data |-> Select(p, username) ]
                ELSE FindUserStopsAtRaise(username, raising, i + 1,
                                          Append(queried, p), raised)

\* the loop over self.db_managers, from position i on; the lookups of the
\* stores in `raising` raise, are logged and skipped
RECURSIVE FindUser(_, _, _, _, _)
FindUser(username, raising, i, queried, raised) ==
  IF i > Len(SearchOrder)
  THEN [ queried |-> queried, raised |-> raised, project_found |-> "None",
         data |-> << >> ]
  ELSE LET p == SearchOrder[i]
       IN  IF p \in raising
           THEN FindUser(username, raising, i + 1, Append(queried, p),
                         raised \cup {p})
           ELSE IF Select(p, username) # << >>
                THEN [ queried |-> Append(queried, p), raised |-> raised,
                       project_found |-> p, data |-> Select(p, username) ]
                ELSE FindUser(username, raising, i + 1, Append(queried, p), raised)

Failure(message) == [success |-> FALSE, message |-> message, user_data |-> EmptyDict]

MsgSystemError == << "Errore sistema" >>

\* authenticate_user that reports an outage of every store as a system error
\* and does not count it
AfterSearchOutageIsSystemError(f, password) ==
  IF f.data = << >> /\ f.raised = Projects
  THEN [ allowed |-> TRUE, queried |-> f.queried, raised |-> f.raised,
         project_found |-> "None", cause |-> "locked",
         ret |-> Failure(MsgSystemError) ]
  ELSE IF f.data = << >>
  THEN [ allowed |-> TRUE, queried |-> f.queried, raised |-> f.raised,
         project_found |-> "None", cause |-> "not_found",
         ret |-> Failure(MsgNotFound) ]
  ELSE IF ~VerifyPassword(password, f.data[1].password_hash).ok
       THEN [ allowed |-> TRUE, queried |-> f.queried, raised |-> f.raised,
              project_found |-> f.project_found, cause |-> "wrong_password",
              ret |-> Failure(MsgWrongPassword) ]
       ELSE [ allowed |-> TRUE, queried |-> f.queried, raised |-> f.raised,
              project_found |-> f.project_found, cause |-> "ok",
              ret |-> [ success |-> TRUE,
                        message |-> MsgWelcome(f.data[1].first_name),
                        user_data |-> f.data[1] ] ]

\* authenticate_user that returns the row it found with a wrong-password
\* rejection
AfterSearchReturnsRowOnRejection(f, password) ==
  IF f.data = << >>
  THEN [ allowed |-> TRUE, queried |-> f.queried, raised |-> f.raised,
         project_found |-> "None", cause |-> "not_found",
         ret |-> Failure(MsgNotFound) ]
  ELSE IF ~VerifyPassword(password, f.data[1].password_hash).ok
       THEN [ allowed |-> TRUE, queried |-> f.queried, raised |-> f.raised,
              project_found |-> f.project_found, cause |-> "wrong_password",
              ret |-> [ success |-> FALSE, message |-> MsgWrongPassword,
                        user_data |-> f.data[1] ] ]
       ELSE [ allowed |-> TRUE, queried |-> f.queried, raised |-> f.raised,
              project_found |-> f.project_found, cause |-> "ok",
              ret |-> [ success |-> TRUE,
                        message |-> MsgWelcome(f.data[1].first_name),
                        user_data |-> f.data[1] ] ]

\* the rest of authenticate_user once the loop over the stores has ended with f
AfterSearch(f, password) ==
  IF f.data = << >>
  THEN [ allowed |-> TRUE, queried |-> f.queried, raised |-> f.raised,
         project_found |-> "None", cause |-> "not_found",
         ret |-> Failure(MsgNotFound) ]
  ELSE IF ~VerifyPassword(password, f.data[1].password_hash).ok
       THEN [ allowed |-> TRUE, queried |-> f.queried, raised |-> f.raised,
              project_found |-> f.project_found, cause |-> "wrong_password",
              ret |-> Failure(MsgWrongPassword) ]
       ELSE [ allowed |-> TRUE, queried |-> f.queried, raised |-> f.raised,
              project_found |-> f.project_found, cause |-> "ok",
              ret |-> [ success |-> TRUE,
                        message |-> MsgWelcome(f.data[1].first_name),
                        user_data |-> f.data[1] ] ]

\* authenticate_user with the rate limiter consulted after the search
AuthOutcomeSearchFirst(username, password, raising) ==
  LET o == AfterSearch(FindUser(username, raising, 1, << >>, {}), password)
  IN  IF ~CheckRateLimit
      THEN [ allowed |-> FALSE, queried |-> o.queried, raised |-> o.raised,
             project_found |-> "None", cause |-> "locked",
             ret |-> Failure(MsgLocked) ]
      ELSE o

\* what authenticate_user(username, password) does in the current state: the
\* result of the rate limiter, the stores queried, where the user was found,
\* why the call ended and the triple it returns
AuthOutcome(username, password, raising) ==
  IF ~CheckRateLimit
  THEN [ allowed |-> FALSE, queried |-> << >>, raised |-> {},
         project_found |-> "None", cause |-> "locked",
         ret |-> Failure(MsgLocked) ]
  ELSE AfterSearch(FindUser(username, raising, 1, << >>, {}), password)

\* _increment_login_attempts() without the timestamp
IncrementLoginAttemptsNoStamp ==
  /\ login_attempts' = login_attempts + 1
  /\ UNCHANGED last_login_attempt

\* _increment_login_attempts()
IncrementLoginAttempts ==
  /\ login_attempts' = login_attempts + 1
  /\ last_login_attempt' = << now >>

\* _reset_login_attempts()
ResetLoginAttempts ==
  /\ login_attempts' = 0
  /\ last_login_attempt' = None

\* the dict _set_user_session stores in st.session_state.user_info
UserInfoOf(user_data, project_type, login_time) ==
  [ project_type |-> project_type,
    username |-> user_data.username,
    id |-> user_data.id,
    email |-> user_data.email,
    first_name |-> user_data.first_name,
    last_name |-> user_data.last_name,
    role |-> user_data.role,
    login_time |-> login_time ]

\* _set_user_session(user_data, project_type)
SetUserSession(user_data, project_type) ==
  /\ authenticated' = TRUE
  /\ user_info' = UserInfoOf(user_data, project_type, now)
  /\ current_project' = project_type

\* authenticate_user that counts a denied call as a failed attempt
ApplyOutcomeCountsDenied(o) ==
  CASE o.cause \in {"locked", "not_found", "wrong_password"} ->
         /\ IncrementLoginAttempts
         /\ UNCHANGED << authenticated, user_info, current_project >>
    [] OTHER ->
         /\ ResetLoginAttempts
         /\ SetUserSession(o.ret.user_data, o.project_found)

\* authenticate_user that does not count an unknown user as a failed attempt
ApplyOutcomeIgnoresUnknown(o) ==
  CASE o.cause \in {"locked", "not_found"} ->
         UNCHANGED << authenticated, user_info, login_attempts,
                      last_login_attempt, current_project >>
    [] o.cause = "wrong_password" ->
         /\ IncrementLoginAttempts
         /\ UNCHANGED << authenticated, user_info, current_project >>
    [] OTHER ->
         /\ ResetLoginAttempts
         /\ SetUserSession(o.ret.user_data, o.project_found)

\* authenticate_user without the call of _reset_login_attempts
ApplyOutcomeNoReset(o) ==
  CASE o.cause = "locked" ->
         UNCHANGED << authenticated, user_info, login_attempts,
                      last_login_attempt, current_project >>
    [] o.cause \in {"not_found", "wrong_password"} ->
         /\ IncrementLoginAttempts
         /\ UNCHANGED << authenticated, user_info, current_project >>
    [] OTHER ->
         /\ UNCHANGED << login_attempts, last_login_attempt >>
         /\ SetUserSession(o.ret.user_data, o.project_found)

\* authenticate_user that ends the session on a failed attempt
ApplyOutcomeLogsOutOnFailure(o) ==
  CASE o.cause = "locked" ->
         UNCHANGED << authenticated, user_info, login_attempts,
                      last_login_attempt, current_project >>
    [] o.cause \in {"not_found", "wrong_password"} ->
         /\ IncrementLoginAttempts
         /\ authenticated' = FALSE
         /\ user_info' = EmptyDict
         /\ UNCHANGED current_project
    [] OTHER ->
         /\ ResetLoginAttempts
         /\ SetUserSession(o.ret.user_data, o.project_found)

\* the writes authenticate_user makes to the session on the path o took
ApplyOutcome(o) ==
  CASE o.cause = "locked" ->
         UNCHANGED << authenticated, user_info, login_attempts,
                      last_login_attempt, current_project >>
    [] o.cause \in {"not_found", "wrong_password"} ->
         /\ IncrementLoginAttempts
         /\ UNCHANGED << authenticated, user_info, current_project >>
    [] OTHER ->
         /\ ResetLoginAttempts
         /\ SetUserSession(o.ret.user_data, o.project_found)

\* authenticate_user(username, password)
Authenticate(username, password, raising) ==
  /\ calls < MaxCalls
  /\ \E o \in { AuthOutcome(username, password, raising) } :
       /\ ApplyOutcome(o)
       /\ last' = [ password |-> password, username |-> username,
                    op |-> "authenticate", allowed |-> o.allowed,
                    queried |-> o.queried, raised |-> o.raised,
                    project_found |-> o.project_found,
                    cause |-> o.cause, ret |-> o.ret ]
       /\ succeeded' = (succeeded \/ o.ret.success)
  /\ calls' = calls + 1
  /\ UNCHANGED << user_role, current_page, stores, now, vp >>
  /\ UNCHANGED << aivars, auth_config >>

\* logout_user() that also calls _reset_login_attempts()
LogoutResetsLoginAttempts ==
  /\ authenticated' = FALSE
  /\ user_info' = EmptyDict
  /\ current_project' = "lead"
  /\ ResetLoginAttempts
  /\ last' = [NoCall EXCEPT !.op = "logout"]
  /\ UNCHANGED << user_role, current_page, stores, now, calls, succeeded, vp >>
  /\ UNCHANGED << aivars, auth_config >>

\* logout_user()
Logout ==
  /\ authenticated' = FALSE
  /\ user_info' = EmptyDict
  /\ current_project' = "lead"
  /\ last' = [NoCall EXCEPT !.op = "logout"]
  /\ UNCHANGED << login_attempts, last_login_attempt, user_role, current_page,
                  stores, now, calls, succeeded, vp >>
  /\ UNCHANGED << aivars, auth_config >>

\* switch_project(project_type)
SwitchProject(project_type) ==
  /\ IF project_type \in {"lead", "cpa", "prop"}
     THEN current_project' = project_type
     ELSE UNCHANGED current_project
  /\ last' = [NoCall EXCEPT !.op = "switch_project"]
  /\ UNCHANGED << authenticated, user_info, login_attempts, last_login_attempt,
                  user_role, current_page, stores, now, calls, succeeded, vp >>
  /\ UNCHANGED << aivars, auth_config >>

\* the bool UnifiedDashboard._authenticate_user returns, kept in the field
\* success of the last call
DashboardReturn(value) == [NoReturn EXCEPT !.success = value]

(***************************************************************************)
(* Dashboard handlers (src/app.py)                                         *)
(***************************************************************************)
\* _authenticate_user whose call of authenticate_user returns: the returned
\* triple is a non-empty tuple, so the handler takes the login as accepted
DashboardAuthenticateUserTrustsTuple(username, password, project_type) ==
  /\ ~authenticated
  /\ authenticated' = TRUE
  /\ last' = [NoCall EXCEPT !.op = "dashboard_login",
                            !.username = username,
                            !.password = password,
                            !.ret = DashboardReturn(TRUE)]
  /\ UNCHANGED << user_info, login_attempts, last_login_attempt,
                  current_project, user_role, current_page, stores, now, calls,
                  succeeded, vp >>
  /\ UNCHANGED << aivars, auth_config >>

\* UnifiedDashboard._authenticate_user(username, password, project_type), run
\* from the login page, which is shown while the session is not authenticated.
\* The call self.auth_system.authenticate_user(username, password,
\* project_type) passes one argument more than the method takes: it raises
\* TypeError before the method runs, the handler catches it and returns False.
DashboardAuthenticateUser(username, password, project_type) ==
  /\ ~authenticated
  /\ last' = [NoCall EXCEPT !.op = "dashboard_login",
                            !.username = username,
                            !.password = password,
                            !.ret = DashboardReturn(FALSE)]
  /\ UNCHANGED << authenticated, user_info, login_attempts, last_login_attempt,
                  current_project, user_role, current_page, stores, now, calls,
                  succeeded, vp >>
  /\ UNCHANGED << aivars, auth_config >>

\* the Logout button of _render_sidebar; the sidebar is rendered while the
\* session is authenticated
SidebarLogout ==
  /\ authenticated
  /\ authenticated' = FALSE
  /\ user_role' = "None"
  /\ current_project' = "lead"
  /\ current_page' = "dashboard"
  /\ last' = [NoCall EXCEPT !.op = "sidebar_logout"]
  /\ UNCHANGED << user_info, login_attempts, last_login_attempt, stores, now,
                  calls, succeeded, vp >>
  /\ UNCHANGED << aivars, auth_config >>

\* the project selectbox of _render_sidebar
SidebarSelectProject(selected_project) ==
  /\ authenticated
  /\ selected_project # current_project
  /\ current_project' = selected_project
  /\ last' = [NoCall EXCEPT !.op = "sidebar_select_project"]
  /\ UNCHANGED << authenticated, user_info, login_attempts, last_login_attempt,
                  user_role, current_page, stores, now, calls, succeeded, vp >>
  /\ UNCHANGED << aivars, auth_config >>

\* the clock advances
Tick ==
  /\ now < MaxTicks * TickMinutes
  /\ now' = now + TickMinutes
  /\ last' = [NoCall EXCEPT !.op = "tick"]
  /\ UNCHANGED << authenticated, user_info, login_attempts, last_login_attempt,
                  current_project, user_role, current_page, stores, calls,
                  succeeded, vp >>
  /\ UNCHANGED << aivars, auth_config >>

\* the sets of stores whose lookup raises during one call
RaisingSets == { {}, {"lead"}, Projects }

Next ==
  \/ \E u \in Usernames, p \in LoginPasswords, raising \in RaisingSets :
       Authenticate(u, p, raising)
  \/ Logout
  \/ \E p \in Projects \cup {"other"} : SwitchProject(p)
  \/ \E u \in Usernames, p \in LoginPasswords, pt \in Projects :
       DashboardAuthenticateUser(u, p, pt)
  \/ SidebarLogout
  \/ \E p \in Projects : SidebarSelectProject(p)
  \/ Tick

Spec == Init /\ [][Next]_vars

(***************************************************************************)
(* The rate limiter under other configurations                             *)
(***************************************************************************)
\* values of auth_config: the one of _init_auth_config, a lower maximum, no
\* maximum, a lockout window of 5 minutes and a session timeout of 5 minutes
AuthConfigs ==
  { DefaultAuthConfig,
    [ max_login_attempts |-> 2, session_timeout |-> 3600 ],
    [ session_timeout |-> 3600 ],
    [ max_login_attempts |-> 3, session_timeout |-> 3600, lockout_minutes |-> 5 ],
    [ max_login_attempts |-> 3, session_timeout |-> 300 ] }

InitConfig ==
  /\ InitSession
  /\ InitAssistant
  /\ auth_config \in AuthConfigs
  /\ stores \in StoreConfigs
  /\ now = 0
  /\ calls = 0
  /\ succeeded = FALSE
  /\ last = NoCall
  /\ vp = NoVerify

NextConfig ==
  \/ \E u \in Usernames : Authenticate(u, Pw1, {})
  \/ Tick

SpecConfig == InitConfig /\ [][NextConfig]_vars

(***************************************************************************)
(* verify_password on its own                                              *)
(***************************************************************************)
Encodings == {"bcrypt", "salted", "sha256", "plaintext"}

Plaintexts == {Pw1, Pw2, PwWrong, PwDollar}

\* the stored value of `plaintext` in each supported encoding
Encode(encoding, plaintext, salt) ==
  CASE encoding = "bcrypt" -> BcryptHashpw(plaintext, BSalt)
    [] encoding = "salted" -> HashPassword(plaintext, salt)
    [] encoding = "sha256" -> Sha256Hex(plaintext)
    [] OTHER -> plaintext

\* 64 hex characters that are the digest of no password of the pools
DeadBeef == [ i \in 1..64 |-> << "d", "e", "a", "d", "b", "e", "e", "f" >>[((i - 1) % 8) + 1] ]

\* 64 characters with a "$" among them
Dollar64 == << "$" >> \o Repeat("c", 63)

\* stored values that come from no encoding of a pool password
RawStored == {DeadBeef, Dollar64, BadBcrypt, << >>, Repeat("c", 51), Repeat("c", 50)}

VerifyCall(password, stored_hash, encoding, plaintext) ==
  \E v \in { VerifyPassword(password, stored_hash) } :
    vp' = [ password |-> password, stored_hash |-> stored_hash,
            rule |-> v.rule, ok |-> v.ok,
            op |-> "verify_password", encoding |-> encoding, plaintext |-> plaintext ]

\* verify_password(password, stored) for a stored value produced from a
\* plaintext in one of the supported encodings
VerifyEncoded(encoding, plaintext, salt, password) ==
  /\ VerifyCall(password, Encode(encoding, plaintext, salt), encoding, plaintext)
  /\ UNCHANGED << authenticated, user_info, login_attempts, last_login_attempt,
                  current_project, user_role, current_page, stores, now, calls,
                  succeeded, last >>
  /\ UNCHANGED << aivars, auth_config >>

\* verify_password(password, stored) for any other stored value
VerifyRaw(stored_hash, password) ==
  /\ VerifyCall(password, stored_hash, "raw", << >>)
  /\ UNCHANGED << authenticated, user_info, login_attempts, last_login_attempt,
                  current_project, user_role, current_page, stores, now, calls,
                  succeeded, last >>
  /\ UNCHANGED << aivars, auth_config >>

InitVerify ==
  /\ InitSession
  /\ InitAssistant
  /\ auth_config = DefaultAuthConfig
  /\ stores = [p \in Projects |-> {}]
  /\ now = 0
  /\ calls = 0
  /\ succeeded = FALSE
  /\ last = NoCall
  /\ vp = NoVerify

NextVerify ==
  \/ \E e \in Encodings, pt \in Plaintexts, salt \in {SaltA, SaltB} :
       \E pw \in Plaintexts \cup {Encode(e, pt, salt)} :
         VerifyEncoded(e, pt, salt, pw)
  \/ \E st \in RawStored : \E pw \in Plaintexts \cup {st} : VerifyRaw(st, pw)

SpecVerify == InitVerify /\ [][NextVerify]_vars

(***************************************************************************)
(* check_permissions                                                       *)
(***************************************************************************)
\* dict.get(key, default)
\* the dict `permissions` of check_permissions
Permissions ==
  [ admin |-> {"all"},
    manager |-> {"read", "write", "delete", "manage_team"},
    user |-> {"read", "write"},
    viewer |-> {"read"} ]

\* check_permissions where a role that is not in the table gets no permission
CheckPermissionsUnknownGetsNone(required_permission) ==
  IF ~authenticated THEN FALSE
  ELSE LET role == Get(user_info, "role", "viewer")
           user_permissions == Get(Permissions, role, {})
       IN  "all" \in user_permissions \/ required_permission \in user_permissions

\* check_permissions(required_permission)
CheckPermissions(required_permission) ==
  IF ~authenticated THEN FALSE
  ELSE LET role == Get(user_info, "role", "viewer")
           user_permissions == Get(Permissions, role, {"read"})
       IN  "all" \in user_permissions \/ required_permission \in user_permissions

\* a call of check_permissions(required_permission)
CheckPermissionsCall(required_permission) ==
  /\ last' = [ op |-> "check_permissions",
               ret |-> CheckPermissions(required_permission),
               required_permission |-> required_permission ]
  /\ UNCHANGED << authenticated, user_info, login_attempts, last_login_attempt,
                  current_project, user_role, current_page, stores, now, calls,
                  succeeded, vp >>
  /\ UNCHANGED << aivars, auth_config >>

\* the roles a users row can carry: those of the table, one that is not in
\* it and a null role
Roles == {"admin", "manager", "user", "viewer", "guest", "None"}

RequiredPermissions == {"read", "write", "delete", "manage_team", "all", "export"}

\* the session before any login, or the session _set_user_session leaves
\* after the login of a user whose row carries the role r in the tenant p
InitPermissions ==
  /\ \/ InitSession
     \/ \E r \in Roles, p \in Projects :
          /\ authenticated = TRUE
          /\ user_info = UserInfoOf([RowOf(p, "alice") EXCEPT !.role = r], p, 0)
          /\ login_attempts = 0
          /\ last_login_attempt = None
          /\ current_project = p
          /\ user_role = "None"
          /\ current_page = "dashboard"
  /\ InitAssistant
  /\ auth_config = DefaultAuthConfig
  /\ stores = [p \in Projects |-> {}]
  /\ now = 0
  /\ calls = 0
  /\ succeeded = FALSE
  /\ last = NoCall
  /\ vp = NoVerify

NextPermissions ==
  \/ \E p \in RequiredPermissions : CheckPermissionsCall(p)
  \/ Logout
  \/ SidebarLogout

SpecPermissions == InitPermissions /\ [][NextPermissions]_vars

(***************************************************************************)
(* Inference client (src/ai/unified_ai_assistant.py)                       *)
(***************************************************************************)
\* self.cache_timeout, in seconds
CacheTimeout == 300

\* network requests per behaviour
MaxRequests == 2

\* network requests of the domain callers per behaviour
MaxAnalysisRequests == 1

\* minutes the clock of the inference client runs
MaxClock == 6

\* dict[key] = value
Put(d, key, value) ==
  [ k \in DOMAIN d \cup {key} |-> IF k = key THEN value ELSE d[k] ]

SystemRole == << "s", "y", "s", "t", "e", "m" >>

UserRole == << "u", "s", "e", "r" >>

\* the list [{"role": "system", ...}, {"role": "user", ...}] a caller builds
Messages(system_content, user_content) ==
  << [role |-> SystemRole, content |-> system_content],
     [role |-> UserRole, content |-> user_content] >>

\* str(messages), from the i-th message on
RECURSIVE StrMessages(_, _)
StrMessages(messages, i) ==
  IF i > Len(messages) THEN << >>
  ELSE messages[i].role \o << "$" >> \o messages[i].content \o << "$" >>
         \o StrMessages(messages, i + 1)

\* hash(s) of a str, within one process
PyHash(s) == Fingerprint(s, 13)

\* f"{project_type}_{hash(str(messages))}"
CacheKey(project_type, messages) ==
  project_type \o << "_" >> \o Digits(PyHash(StrMessages(messages, 1)), 4, HexDigits)

\* the freshness test with <= in place of <
FreshAtTimeout(cached_time) == (now - cached_time) * 60 <= CacheTimeout

\* datetime.now() - cached_time < timedelta(seconds=self.cache_timeout),
\* the clock counting minutes
Fresh(cached_time) == (now - cached_time) * 60 < CacheTimeout

\* what requests.post and response.json() do during one call: the post
\* raises, or answers with a status code and a body that holds
\* choices[0].message.content or does not
PostRaises == [content |-> << >>, raises |-> TRUE, status_code |-> 0, well_formed |-> FALSE]

PostStatus(status_code) ==
  [content |-> << >>, raises |-> FALSE, status_code |-> status_code, well_formed |-> FALSE]

PostMalformed ==
  [content |-> << >>, raises |-> FALSE, status_code |-> 200, well_formed |-> FALSE]

PostCompletion(content) ==
  [content |-> content, raises |-> FALSE, status_code |-> 200, well_formed |-> TRUE]

\* _make_api_call that answers with the stale text when the refresh fails
MakeApiCallWithKeyServesStale(cache_key, net) ==
  LET cache == assistant.cache
      hit == IF cache_key \in DOMAIN cache
             THEN IF Fresh(cache[cache_key][1]) THEN "fresh" ELSE "stale"
             ELSE "miss"
      base == [ stored |-> FALSE, raised |-> FALSE, ret |-> None,
                key |-> cache_key, cache |-> cache, hit |-> hit,
                requested |-> TRUE ]
  IN  IF hit = "fresh"
      THEN [base EXCEPT !.requested = FALSE, !.ret = << cache[cache_key][2] >>]
      ELSE IF net.status_code = 200 /\ net.well_formed /\ ~net.raises
           THEN [base EXCEPT !.ret = << net.content >>,
                             !.stored = TRUE,
                             !.cache = Put(cache, cache_key,
                                           << now, net.content >>)]
      ELSE IF hit = "stale"
           THEN [base EXCEPT !.ret = << cache[cache_key][2] >>]
           ELSE base

\* the try block of _make_api_call: the cache entry found, whether
\* requests.post was called, whether an exception left the block, the value
\* returned (None or <<text>>) and self.cache afterwards
MakeApiCallWithKey(cache_key, net) ==
  LET cache == assistant.cache
      hit == IF cache_key \in DOMAIN cache
             THEN IF Fresh(cache[cache_key][1]) THEN "fresh" ELSE "stale"
             ELSE "miss"
      base == [ stored |-> FALSE, raised |-> FALSE, ret |-> None,
                key |-> cache_key, cache |-> cache, hit |-> hit,
                requested |-> TRUE ]
  IN  IF hit = "fresh"
      THEN [base EXCEPT !.requested = FALSE, !.ret = << cache[cache_key][2] >>]
      ELSE IF net.raises THEN [base EXCEPT !.raised = TRUE]
      ELSE IF net.status_code = 200
           THEN IF ~net.well_formed THEN [base EXCEPT !.raised = TRUE]
                ELSE [base EXCEPT !.ret = << net.content >>,
                                  !.stored = TRUE,
                                  !.cache = Put(cache, cache_key,
                                                << now, net.content >>)]
           ELSE base

MakeApiCallBody(messages, project_type, net) ==
  CHOOSE b \in { MakeApiCallWithKey(k, net) : k \in {CacheKey(project_type, messages)} } :
    TRUE

\* _make_api_call without its except clause
MakeApiCallNoExcept(messages, project_type, net) ==
  MakeApiCallBody(messages, project_type, net)

\* _make_api_call(messages, project_type): an exception that leaves the try
\* block is logged and None is returned
MakeApiCallOutcome(messages, project_type, net) ==
  LET except(b) == IF b.raised THEN [b EXCEPT !.raised = FALSE, !.ret = None] ELSE b
  IN  CHOOSE o \in { except(b) : b \in {MakeApiCallBody(messages, project_type, net)} } :
        TRUE

\* the effect of one _make_api_call on the assistant and on the network
ApplyApiCall(o) ==
  /\ assistant' = [assistant EXCEPT !.cache = o.cache]
  /\ network_requests' = network_requests + (IF o.requested THEN 1 ELSE 0)

authvars ==
  << authenticated, user_info, login_attempts, last_login_attempt,
     current_project, user_role, current_page, stores, calls, succeeded, vp,
     auth_config >>

\* a call of _make_api_call(messages, project_type)
MakeApiCall(messages, project_type, net) ==
  /\ network_requests < MaxRequests
  /\ \E o \in { MakeApiCallOutcome(messages, project_type, net) } :
       /\ ApplyApiCall(o)
       /\ last' = [ stored |-> o.stored, project_type |-> project_type, op |-> "make_api_call",
                    raised |-> o.raised, ret |-> o.ret,
                    key |-> o.key, session |-> assistant.session,
                    messages |-> messages, net |-> net,
                    hit |-> o.hit, requested |-> o.requested,
                    called |-> TRUE, time |-> now ]
  /\ UNCHANGED << authvars, now >>

\* main() in a script run of session s: UnifiedDashboard() constructs a new
\* UnifiedAIAssistant; `last` keeps the last call
Main(s) ==
  /\ assistant' = NewAssistant(s)
  /\ UNCHANGED << authvars, now, last, network_requests >>

\* d minutes pass; `last` keeps the last call
Elapse(d) ==
  /\ now + d <= MaxClock
  /\ now' = now + d
  /\ UNCHANGED << authvars, last, assistant, network_requests >>

(***************************************************************************)
(* Domain callers of the inference client                                  *)
(***************************************************************************)
\* a DataFrame, as far as the callers look at it: its columns and the dtype
\* of the columns data_registrazione and deposito
LeadSample ==
  [ columns |-> {"id", "nome", "email", "fonte", "stato", "data_registrazione",
                 "valore_stimato"},
    date_dtype |-> "datetime", deposito_dtype |-> "none" ]

CpaSample ==
  [ columns |-> {"id", "nome_cliente", "email", "broker", "deposito",
                 "piattaforma", "data_registrazione", "vps_ip"},
    date_dtype |-> "datetime", deposito_dtype |-> "int" ]

PropSample ==
  [ columns |-> {"id", "nome_broker", "livello", "capitale", "profitto_mensile",
                 "win_rate", "data_inizio", "stato"},
    date_dtype |-> "none", deposito_dtype |-> "none" ]

\* leads read from a file: the dates are strings
LeadCsv ==
  [ columns |-> {"fonte", "stato", "data_registrazione"},
    date_dtype |-> "str", deposito_dtype |-> "none" ]

Datasets == {LeadSample, CpaSample, PropSample, LeadCsv}

Callers ==
  {"analyze_lead_data", "calculate_cpa_metrics", "analyze_broker_performance",
   "generate_unified_report"}

\* one entry of a statistics dict: its name, the Python type of its value and
\* the text json.dumps writes for it
Stat(name, kind, value) == [name |-> name, value |-> value, kind |-> kind]

\* "1" when the column is in the DataFrame
Has(dataset, column) ==
  IF column \in dataset.columns THEN << "1" >> ELSE << "0" >>

\* the type of Series.min() / Series.max() of the column data_registrazione
DateKind(dataset) ==
  IF "data_registrazione" \notin dataset.columns THEN "none"
  ELSE IF dataset.date_dtype = "datetime" THEN "Timestamp" ELSE "str"

\* the type of Series.sum() of the column deposito
SumKind(dataset) ==
  IF "deposito" \notin dataset.columns THEN "int"
  ELSE IF dataset.deposito_dtype = "int" THEN "int64" ELSE "float64"

\* the statistics each caller computes before it calls the inference client:
\* data_summary, metrics, analysis, unified_summary
LocalStats(caller, dataset) ==
  CASE caller = "analyze_lead_data" ->
         << Stat("total_leads", "int", << "n" >>),
            Stat("columns", "list", << "c" >>),
            Stat("date_range.start", DateKind(dataset), Has(dataset, "data_registrazione")),
            Stat("date_range.end", DateKind(dataset), Has(dataset, "data_registrazione")),
            Stat("conversion_rate", "float", Has(dataset, "stato")),
            Stat("top_sources", "dict", Has(dataset, "fonte")),
            Stat("trends", "dict", Has(dataset, "data_registrazione")) >>
    [] caller = "calculate_cpa_metrics" ->
         << Stat("total_clients", "int", << "n" >>),
            Stat("total_deposits", SumKind(dataset), Has(dataset, "deposito")),
            Stat("average_deposit", "float", Has(dataset, "deposito")),
            Stat("broker_distribution", "dict", Has(dataset, "broker")),
            Stat("platform_analysis", "dict", Has(dataset, "piattaforma")),
            Stat("vps_usage", "dict", Has(dataset, "vps_ip")),
            Stat("financial_projections.total_deposits", SumKind(dataset),
                 Has(dataset, "deposito")) >>
    [] caller = "analyze_broker_performance" ->
         << Stat("total_brokers", "int", << "n" >>),
            Stat("broker_rankings",
                 IF {"broker", "deposito"} \subseteq dataset.columns
                 THEN "tuple_keys" ELSE "list",
                 Has(dataset, "broker") \o Has(dataset, "deposito")),
            Stat("performance_metrics", "dict", Has(dataset, "broker")),
            Stat("market_analysis", "dict", << "m" >>),
            Stat("risk_assessment", "dict", << "r" >>) >>
    [] OTHER ->
         << Stat("projects", "list", << "p" >>),
            Stat("total_records", "int", << "n" >>),
            Stat("date_range", "dict", Has(dataset, "data_registrazione")),
            Stat("cross_project_insights", "dict", << "x" >>) >>

\* the Python types json.dumps rejects with TypeError: a pandas Timestamp, a
\* numpy int64 and a dict whose keys are tuples
NotSerialisable == {"Timestamp", "int64", "tuple_keys"}

\* the text of json.dumps(stats), from the i-th entry on
RECURSIVE DumpText(_, _)
DumpText(stats, i) ==
  IF i > Len(stats) THEN << >>
  ELSE stats[i].value \o DumpText(stats, i + 1)

\* json.dumps(stats, indent=2)
JsonDumps(stats) ==
  IF \E i \in 1..Len(stats) : stats[i].kind \in NotSerialisable
  THEN [raises |-> TRUE, text |-> << >>]
  ELSE [raises |-> FALSE, text |-> DumpText(stats, 1)]

IsDigits(t) ==
  /\ Len(t) > 0
  /\ \A i \in 1..Len(t) : t[i] \in {"0", "1", "2", "3", "4", "5", "6", "7", "8", "9"}

\* json.loads(text) for the JSON texts null, digits, "chars", [], [digits],
\* {} and {"c":digits} with a key c of one character; kind "error" stands
\* for JSONDecodeError
JsonLoads(text) ==
  LET n == Len(text)
      inner == SubSeq(text, 2, n - 1)
      quoted(t) == /\ Len(t) >= 2
                   /\ t[1] = "\"" /\ t[Len(t)] = "\""
                   /\ \A i \in 2..(Len(t) - 1) : t[i] # "\""
  IN  IF text = << "n", "u", "l", "l" >> THEN [value |-> EmptyDict, kind |-> "null"]
      ELSE IF IsDigits(text) THEN [value |-> EmptyDict, kind |-> "number"]
      ELSE IF quoted(text) THEN [value |-> EmptyDict, kind |-> "string"]
      ELSE IF n >= 2 /\ text[1] = "[" /\ text[n] = "]"
                /\ (n = 2 \/ IsDigits(inner))
           THEN [value |-> EmptyDict, kind |-> "list"]
      ELSE IF n = 2 /\ text[1] = "{" /\ text[n] = "}"
           THEN [value |-> EmptyDict, kind |-> "object"]
      ELSE IF n >= 7 /\ text[1] = "{" /\ text[n] = "}"
                /\ quoted(SubSeq(text, 2, 4)) /\ text[5] = ":"
                /\ IsDigits(SubSeq(text, 6, n - 1))
           THEN [value |-> Put(EmptyDict, text[3], SubSeq(text, 6, n - 1)),
                 kind |-> "object"]
      ELSE [value |-> EmptyDict, kind |-> "error"]

\* the tag a caller passes to _make_api_call
Unified == << "u", "n", "i", "f", "i", "e", "d" >>

TagOf(caller, project_type) ==
  IF caller = "generate_unified_report" THEN Unified ELSE project_type

\* the prompt of each caller: the name of its task and the project type in
\* the system message, the dumped statistics in the user message
TaskOf(caller) ==
  CASE caller = "analyze_lead_data" -> << "l" >>
    [] caller = "calculate_cpa_metrics" -> << "c" >>
    [] caller = "analyze_broker_performance" -> << "b" >>
    [] OTHER -> << "u" >>

PromptOf(caller, project_type, dumped) ==
  Messages(TaskOf(caller)
             \o (IF caller = "generate_unified_report" THEN << >> ELSE project_type),
           TaskOf(caller) \o dumped)

\* the field of the result that holds the local statistics
StatsField(caller) ==
  CASE caller = "analyze_lead_data" -> "data_summary"
    [] caller = "calculate_cpa_metrics" -> "basic_metrics"
    [] caller = "analyze_broker_performance" -> "basic_analysis"
    [] OTHER -> "unified_summary"

\* the field of the result that holds a response json.loads rejects
RawTextField(caller) ==
  CASE caller = "analyze_lead_data" -> "analysis"
    [] caller = "calculate_cpa_metrics" -> "advanced_analysis"
    [] caller = "analyze_broker_performance" -> "advanced_analysis"
    [] OTHER -> "unified_report"

\* _fallback_lead_analysis, _fallback_cpa_analysis, _fallback_broker_analysis,
\* _fallback_unified_report
Fallback(caller, stats) ==
  CASE caller = "analyze_lead_data" ->
         [ analysis |-> << "Analisi base completata (AI non disponibile)" >>,
           data_summary |-> stats,
           recommendations |-> << "Migliorare conversion rate",
                                  "Ottimizzare fonti lead" >>,
           timestamp |-> now ]
    [] caller = "calculate_cpa_metrics" ->
         [ recommendations |-> << "Ottimizzare budget", "Migliorare ROI" >>,
           timestamp |-> now,
           basic_metrics |-> stats,
           roi_analysis |-> << "Analisi ROI base completata" >> ]
    [] caller = "analyze_broker_performance" ->
         [ recommendations |-> << "Diversificare broker",
                                  "Monitorare performance" >>,
           timestamp |-> now,
           basic_analysis |-> stats,
           broker_rankings |-> << "Ranking base completato" >> ]
    [] OTHER ->
         [ recommendations |-> << "Integrare progetti", "Ottimizzare sinergie" >>,
           timestamp |-> now,
           executive_summary |-> << "Report unificato base completato" >>,
           unified_summary |-> stats ]

\* the dict of the outer except clause of a caller
ErrorResult(exception) == [timestamp |-> now, error |-> << exception >>]

\* the outcome of _make_api_call when a caller does not reach the call
NoApiCall ==
  [ stored |-> FALSE, raised |-> FALSE, ret |-> None,
    key |-> << >>, cache |-> assistant.cache, hit |-> "miss", requested |-> FALSE ]

\* the dict a caller returns, given its local statistics, their json.dumps
\* and the outcome of _make_api_call. json.dumps raises TypeError on
\* statistics it cannot serialise, before the call; adding a key to a parsed
\* response that is no dict raises TypeError: the outer except clause turns
\* both into the error dict.
CallerResult(caller, stats, dumped, api) ==
  IF dumped.raises THEN ErrorResult("TypeError")
  ELSE IF api.raised THEN ErrorResult("Exception")
  ELSE IF api.ret # None /\ api.ret[1] # << >>
  THEN LET parsed == JsonLoads(api.ret[1])
       IN  IF parsed.kind = "error"
           THEN Put(Put(Put(EmptyDict, RawTextField(caller), api.ret[1]),
                        StatsField(caller), stats),
                    "timestamp", now)
           ELSE IF parsed.kind = "object"
           THEN Put(Put(parsed.value, StatsField(caller), stats), "timestamp", now)
           ELSE ErrorResult("TypeError")
  ELSE Fallback(caller, stats)

\* the body of analyze_lead_data, calculate_cpa_metrics,
\* analyze_broker_performance and generate_unified_report: the local
\* statistics, the prompt with the dumped statistics, the call of
\* _make_api_call and the result dict
Analyze(caller, dataset, project_type, net) ==
  \E stats \in { LocalStats(caller, dataset) } :
  \E dumped \in { JsonDumps(stats) } :
  \E api \in { IF dumped.raises THEN NoApiCall
               ELSE MakeApiCallOutcome(PromptOf(caller, project_type, dumped.text),
                                       TagOf(caller, project_type), net) } :
    /\ network_requests < MaxAnalysisRequests
    /\ ApplyApiCall(api)
    /\ last' = [ stored |-> api.stored, op |-> caller,
                 raised |-> api.raised, ret |-> api.ret, key |-> api.key, session |-> assistant.session,
                 net |-> net, hit |-> api.hit,
                 requested |-> api.requested,
                 called |-> ~dumped.raises, time |-> now,
                 dataset |-> dataset, stats |-> stats, result |-> CallerResult(caller, stats, dumped, api) ]
    /\ UNCHANGED << authvars, now >>

\* analyze_lead_data(lead_data, project_type)
AnalyzeLeadData(lead_data, project_type, net) ==
  Analyze("analyze_lead_data", lead_data, project_type, net)

\* calculate_cpa_metrics(cpa_data, project_type)
CalculateCpaMetrics(cpa_data, project_type, net) ==
  Analyze("calculate_cpa_metrics", cpa_data, project_type, net)

\* analyze_broker_performance(broker_data, project_type)
AnalyzeBrokerPerformance(broker_data, project_type, net) ==
  Analyze("analyze_broker_performance", broker_data, project_type, net)

\* generate_unified_report(all_data) for all_data that holds one DataFrame
GenerateUnifiedReport(all_data, net) ==
  Analyze("generate_unified_report", all_data, Unified, net)

(***************************************************************************)
(* The inference client and its callers on their own                       *)
(***************************************************************************)
TagLead == << "l", "e", "a", "d" >>

TagCpa == << "c", "p", "a" >>

TagProp == << "p", "r", "o", "p" >>

\* completions: a JSON object, free text, a JSON list, string, number and
\* null, and the empty text
TextObject == << "{", "\"", "k", "\"", ":", "1", "}" >>

TextPlain == << "c", "i", "a", "o" >>

TextList == << "[", "1", "]" >>

TextString == << "\"", "s", "\"" >>

TextNumber == << "7" >>

TextNull == << "n", "u", "l", "l" >>

Texts == {TextObject, TextPlain, TextList, TextString, TextNumber, TextNull, << >>}

Failures == {PostRaises, PostStatus(500), PostMalformed}

NetResponses == Failures \cup { PostCompletion(t) : t \in Texts }

\* the prompts of direct calls of _make_api_call
DirectMessages ==
  { Messages(<< "a" >>, << "q", "1" >>), Messages(<< "a" >>, << "q", "2" >>) }

Sessions == {1, 2}

InitAI ==
  /\ InitSession
  /\ InitAssistant
  /\ auth_config = DefaultAuthConfig
  /\ stores = [p \in Projects |-> {}]
  /\ now = 0
  /\ calls = 0
  /\ succeeded = FALSE
  /\ last = NoCall
  /\ vp = NoVerify

\* what the endpoint answers to direct calls
DirectResponses ==
  Failures \cup {PostCompletion(TextObject), PostCompletion(TextPlain)}

NextAI ==
  \/ \E s \in Sessions : Main(s)
  \/ \E d \in {2, 3} : Elapse(d)
  \/ \E m \in DirectMessages, t \in {TagLead, TagCpa}, net \in DirectResponses :
       MakeApiCall(m, t, net)

SpecAI == InitAI /\ [][NextAI]_vars

NextCallers ==
  \/ \E s \in Sessions : Main(s)
  \/ \E d \in Datasets, net \in NetResponses : AnalyzeLeadData(d, TagLead, net)
  \/ \E d \in Datasets, net \in NetResponses : CalculateCpaMetrics(d, TagCpa, net)
  \/ \E d \in Datasets, net \in NetResponses : AnalyzeBrokerPerformance(d, TagProp, net)
  \/ \E d \in Datasets, net \in NetResponses : GenerateUnifiedReport(d, net)

SpecCallers == InitAI /\ [][NextCallers]_vars

(***************************************************************************)
(* Python floats (IEEE 754 binary64) and the conversion rate               *)
(***************************************************************************)
\* a float is mantissa * 2^exponent with a mantissa of 53 bits, the first
\* of them 1; zero has the mantissa of zeros. Bit strings are sequences of
\* 0 and 1, most significant bit first.
FloatZero == [mantissa |-> [j \in 1..53 |-> 0], exponent |-> 0]

\* the float above the float with mantissa m and exponent e
FloatIncrement(m, e) ==
  LET zeros == {j \in 1..53 : m[j] = 0}
  IN  IF zeros = {}
      THEN [ mantissa |-> [j \in 1..53 |-> IF j = 1 THEN 1 ELSE 0],
             exponent |-> e + 1 ]
      ELSE LET k == CHOOSE j \in zeros : \A i \in zeros : i <= j
           IN  [ mantissa |-> [j \in 1..53 |->
                                IF j < k THEN m[j] ELSE IF j = k THEN 1 ELSE 0],
                 exponent |-> e ]

\* round toward zero
FloatTruncate(bits, e, sticky) ==
  LET n == Len(bits)
      ones == {j \in 1..n : bits[j] = 1}
  IN  IF ones = {} THEN FloatZero
      ELSE LET lead == CHOOSE j \in ones : \A k \in ones : j <= k
               width == n - lead + 1
           IN  [ mantissa |-> [j \in 1..53 |->
                                IF lead + j - 1 <= n
                                THEN bits[lead + j - 1] ELSE 0],
                 exponent |-> e - (53 - width) ]

\* round to nearest, ties to even: the float nearest to bits * 2^e, plus a
\* positive amount below the last bit when sticky
FloatRound(bits, e, sticky) ==
  LET n == Len(bits)
      ones == {j \in 1..n : bits[j] = 1}
  IN  IF ones = {} THEN FloatZero
      ELSE LET lead == CHOOSE j \in ones : \A k \in ones : j <= k
               width == n - lead + 1
           IN  IF width <= 53
               THEN [ mantissa |-> [j \in 1..53 |->
                                     IF lead + j - 1 <= n
                                     THEN bits[lead + j - 1] ELSE 0],
                      exponent |-> e - (53 - width) ]
               ELSE LET m == [j \in 1..53 |-> bits[lead + j - 1]]
                        guard == bits[lead + 53]
                        rest == sticky \/ \E j \in (lead + 54)..n : bits[j] = 1
                    IN  IF guard = 1 /\ (rest \/ m[53] = 1)
                        THEN FloatIncrement(m, e + (width - 53))
                        ELSE [mantissa |-> m, exponent |-> e + (width - 53)]

\* 2^k mod t, by halving
RECURSIVE Pow2Mod(_, _)
Pow2Mod(k, t) ==
  IF k = 0 THEN 1 % t
  ELSE LET h == Pow2Mod(k \div 2, t)
       IN  IF k % 2 = 0 THEN (h * h) % t ELSE (2 * h * h) % t

\* the 15 bits of a number below 2^15
Bits15(n) == [j \in 1..15 |-> (n \div Pow(2, 15 - j)) % 2]

\* float(n) for 0 <= n < 2^15
FloatOfInt(n) == FloatRound(Bits15(n), 0, FALSE)

\* c / t for integers 0 <= c <= t, t > 0: the bit of the integer part and
\* 64 bits of the fraction by long division, rounded
FloatDiv(c, t) ==
  LET r == c % t
      bits == [j \in 1..65 |->
                IF j = 1 THEN c \div t
                ELSE (2 * ((r * Pow2Mod(j - 2, t)) % t)) \div t]
  IN  FloatRound(bits, 0 - 64, (r * Pow2Mod(64, t)) % t # 0)

\* the number the bits lo..hi of a bit string are, by halving
RECURSIVE BitsToInt(_, _, _)
BitsToInt(bits, lo, hi) ==
  IF lo > hi THEN 0
  ELSE IF lo = hi THEN bits[lo]
  ELSE LET mid == (lo + hi) \div 2
       IN  BitsToInt(bits, lo, mid) * Pow(2, hi - mid) + BitsToInt(bits, mid + 1, hi)

\* x * n for a float x and an integer 0 <= n < 2^15: the mantissa is
\* multiplied in four limbs of 15 bits and the product rounded
FloatMulInt(x, n) ==
  LET padded == [j \in 1..60 |-> IF j <= 7 THEN 0 ELSE x.mantissa[j - 7]]
      limb(i) == BitsToInt(padded, 15 * (i - 1) + 1, 15 * i)
      p4 == limb(4) * n
      p3 == limb(3) * n + p4 \div 32768
      p2 == limb(2) * n + p3 \div 32768
      p1 == limb(1) * n + p2 \div 32768
      digits == << p1 \div 32768, p1 % 32768, p2 % 32768, p3 % 32768,
                   p4 % 32768 >>
      bits == [j \in 1..75 |->
                (digits[((j - 1) \div 15) + 1] \div Pow(2, 14 - ((j - 1) % 15))) % 2]
  IN  FloatRound(bits, x.exponent, FALSE)

\* calls of _calculate_conversion_rate per behaviour
MaxConversionCalls == 1

\* the number of rows of the column whose value is v
CountRows(column, v) == Cardinality({i \in 1..Len(column) : column[i] = v})

\* _calculate_conversion_rate(data), for a DataFrame given by its columns
\* and the values of its column stato, row by row
CalculateConversionRate(data) ==
  IF "stato" \in data.columns
  THEN LET converted == CountRows(data.stato, "converted")
           total == Len(data.stato)
       IN  IF total > 0 THEN FloatMulInt(FloatDiv(converted, total), 100)
           ELSE FloatOfInt(0)
  ELSE FloatOfInt(0)

\* a call of _calculate_conversion_rate(data)
CalculateConversionRateCall(data) ==
  /\ calls < MaxConversionCalls
  /\ calls' = calls + 1
  /\ last' = [ op |-> "calculate_conversion_rate", ret |-> CalculateConversionRate(data),
               data |-> data ]
  /\ UNCHANGED << authenticated, user_info, login_attempts, last_login_attempt,
                  current_project, user_role, current_page, stores, succeeded,
                  vp, auth_config, now, assistant, network_requests >>

\* a DataFrame of `total` rows with a column stato: `converted` rows
\* "converted", then rows `other`
LeadRows(converted, total, other) ==
  [ columns |-> {"id", "stato"},
    stato |-> [i \in 1..total |-> IF i <= converted THEN "converted" ELSE other] ]

\* a DataFrame of `total` rows without a column stato
NoStato(total) ==
  [ columns |-> {"id"}, stato |-> [i \in 1..total |-> "converted"] ]

\* the sizes of the DataFrames explored
RowCounts == {0, 1, 3, 7, 100}

ConversionInputs ==
  UNION { { LeadRows(c, t, other) : c \in 0..t, other \in {"new", "Converted"} } :
            t \in RowCounts }
    \cup { NoStato(t) : t \in RowCounts }

NextConversion ==
  \E data \in ConversionInputs : CalculateConversionRateCall(data)

SpecConversion == InitAI /\ [][NextConversion]_vars

(***************************************************************************)
(* Claims about the authentication service (checked under Spec)            *)
(***************************************************************************)
\* a step of authenticate_user
AuthenticateStep == calls' = calls + 1

\* the lockout window has not elapsed since the last recorded failure
InLockoutWindow ==
  /\ last_login_attempt # None
  /\ now - last_login_attempt[1] < 15

\* authenticate_user(username, password) would succeed if the rate limiter
\* admitted it and no lookup raised
WouldBeAccepted(username, password) ==
  AfterSearch(FindUser(username, {}, 1, << >>, {}), password).ret.success

\* C1: when check_rate_limit returns false, authenticate returns failure
\* with the lockout message and an empty record and queries no tenant store,
\* whatever the username and the password.
C1_DeniedCallQueriesNoStore ==
  [][ (AuthenticateStep /\ ~CheckRateLimit)
        => /\ ~last'.allowed
           /\ last'.ret = [ success |-> FALSE, message |-> MsgLocked,
                            user_data |-> EmptyDict ]
           /\ last'.queried = << >> ]_vars

\* a call with credentials the stores accept has been denied
C1_Witness ==
  /\ last.op = "authenticate"
  /\ ~last.allowed
  /\ last.queried = << >>
  /\ WouldBeAccepted(last.username, last.password)

\* C2 as stated: in a session whose logins all fail, check_rate_limit is
\* true on attempts 1..N-1 and, from attempt N on, false until the lockout
\* window has elapsed and true once it has.
C2_DeniedFromAttemptN ==
  [][ (AuthenticateStep /\ ~succeeded')
        => /\ calls' <= MaxLoginAttempts - 1 => last'.allowed
           /\ calls' >= MaxLoginAttempts => (last'.allowed <=> ~InLockoutWindow)
    ]_vars

\* C2 amended: in a session whose logins all fail, check_rate_limit is true
\* on attempts 1..N and, from attempt N+1 on, false until the lockout window
\* has elapsed since the last recorded failure and true once it has.
C2_DeniedFromAttemptNPlusOne ==
  [][ (AuthenticateStep /\ ~succeeded')
        => /\ calls' <= MaxLoginAttempts => last'.allowed
           /\ calls' >= MaxLoginAttempts + 1 => (last'.allowed <=> ~InLockoutWindow)
    ]_vars

\* N failures, a denied attempt and, after the window, an admitted attempt
C2_Witness ==
  /\ last.op = "authenticate"
  /\ ~succeeded
  /\ last.allowed
  /\ login_attempts = MaxLoginAttempts + 1
  /\ calls = MaxLoginAttempts + 2

\* C3: once the failure count has reached the maximum, an authenticate call
\* is denied exactly while less than 15 minutes have passed since the last
\* recorded failure, and a denied call changes neither the failure count
\* nor the timestamp of the last failure.
C3_DeniedCallsDoNotExtendLockout ==
  [][ (AuthenticateStep /\ login_attempts >= MaxLoginAttempts)
        => /\ last_login_attempt # None
           /\ IF now - last_login_attempt[1] < 15
              THEN /\ ~last'.allowed
                   /\ ~last'.ret.success
                   /\ login_attempts' = login_attempts
                   /\ last_login_attempt' = last_login_attempt
              ELSE last'.allowed ]_vars

\* two calls have been denied, the second later than the last failure
C3_Witness ==
  /\ last.op = "authenticate"
  /\ ~last.allowed
  /\ login_attempts = MaxLoginAttempts
  /\ calls >= login_attempts + 2
  /\ now > last_login_attempt[1]

\* C4: when authenticate finds a row and verify_password accepts the
\* password, the failure counter is 0, the timestamp is cleared, the session
\* is authenticated, user_info holds the fields of the row and the tenant of
\* the match, current_project is that tenant and success is returned.
C4_SuccessEstablishesSession ==
  ( /\ last.op = "authenticate"
    /\ last.project_found # "None"
    /\ VerifyPassword(last.password,
                      Select(last.project_found, last.username)[1].password_hash).ok )
    => LET row == Select(last.project_found, last.username)[1]
       IN  /\ last.ret.success
           /\ last.ret.user_data = row
           /\ login_attempts = 0
           /\ last_login_attempt = None
           /\ authenticated
           /\ user_info.id = row.id
           /\ user_info.username = row.username
           /\ user_info.email = row.email
           /\ user_info.first_name = row.first_name
           /\ user_info.last_name = row.last_name
           /\ user_info.role = row.role
           /\ user_info.project_type = last.project_found
           /\ current_project = last.project_found

\* a login has succeeded on a row of the third tenant after earlier attempts
C4_Witness ==
  /\ last.op = "authenticate"
  /\ last.ret.success
  /\ last.project_found = "prop"
  /\ user_info.project_type = "prop"
  /\ calls >= 3

\* C5: an authenticate call that passes the rate limiter and fails, for an
\* unknown user or for a wrong password, adds exactly one to the failure
\* counter, records the current time as the last failure and returns
\* failure.
C5_FailedCallCountsOnce ==
  [][ (AuthenticateStep /\ CheckRateLimit /\ ~last'.ret.success)
        => /\ login_attempts' = login_attempts + 1
           /\ last_login_attempt' = << now >>
           /\ last'.ret.user_data = EmptyDict
           /\ last'.cause \in {"not_found", "wrong_password"} ]_vars

\* an unknown user has been counted as the second failure, later than time 0
C5_Witness ==
  /\ last.op = "authenticate"
  /\ last.cause = "not_found"
  /\ login_attempts = 2
  /\ now > 0
  /\ last_login_attempt = << now >>

\* C6: authenticate queries the stores in the order lead, cpa, prop and stops
\* at the first that returns a row for the username; the row verified and
\* the tenant reported are those of that store, whatever later stores hold.
C6_FirstMatchInFixedOrder ==
  (last.op = "authenticate" /\ last.allowed)
    => LET order == << "lead", "cpa", "prop" >>
           n == Len(last.queried)
           yields(p) == p \notin last.raised /\ Select(p, last.username) # << >>
       IN  /\ n <= 3
           /\ \A i \in 1..n : last.queried[i] = order[i]
           /\ \A i \in 1..(n - 1) : ~yields(order[i])
           /\ IF n >= 1 /\ yields(order[n])
              THEN /\ last.project_found = order[n]
                   /\ last.ret.success <=>
                        VerifyPassword(last.password,
                          Select(order[n], last.username)[1].password_hash).ok
                   /\ last.ret.success =>
                        last.ret.user_data = Select(order[n], last.username)[1]
              ELSE /\ n = 3
                   /\ last.project_found = "None"
                   /\ ~last.ret.success

\* the row of lead was used and rejected the password that the row of cpa,
\* which was not queried, accepts
C6_Witness ==
  /\ last.op = "authenticate"
  /\ last.queried = << "lead" >>
  /\ last.cause = "wrong_password"
  /\ Select("cpa", last.username) # << >>
  /\ VerifyPassword(last.password,
                    Select("cpa", last.username)[1].password_hash).ok

\* C9: a failed verification is reported as a generic rejection: when a
\* call has been rejected for a wrong password, a call made from the same
\* session state that is rejected because no store holds the username
\* returns the same triple, so the caller cannot tell the causes apart.
C9_RejectionIsGeneric ==
  (last.op = "authenticate" /\ last.cause = "wrong_password")
    => \A u \in Usernames, p \in LoginPasswords :
         LET other == AfterSearch(FindUser(u, {}, 1, << >>, {}), p)
         IN  other.cause = "not_found" => other.ret = last.ret

\* the state of the session in the state machine of the authentication
\* service: locked while the rate limiter denies, authenticating while
\* failures are recorded and the limiter admits
Phase ==
  IF authenticated THEN "authenticated"
  ELSE IF ~CheckRateLimit THEN "locked"
  ELSE IF login_attempts > 0 THEN "authenticating"
  ELSE "anonymous"

\* the transitions of the state machine as documented; a successful login
\* passes through authenticating within one call
DocumentedTransitions ==
  { << "anonymous", "authenticating" >>,
    << "anonymous", "authenticated" >>,
    << "authenticating", "authenticated" >>,
    << "authenticating", "locked" >>,
    << "locked", "authenticating" >>,
    << "authenticated", "anonymous" >> }

\* the session becomes authenticated only by a successful authenticate and
\* stops being authenticated only by a logout
FlagChangesOnlyByLoginAndLogout ==
  /\ (~authenticated /\ authenticated')
       => (AuthenticateStep /\ last'.ret.success)
  /\ (authenticated /\ ~authenticated')
       => last'.op \in {"logout", "sidebar_logout"}

\* C10 as stated: the session state machine has only the documented
\* transitions, and the session becomes authenticated only through a
\* successful authenticate and stops being authenticated only through
\* logout.
C10_OnlyDocumentedTransitions ==
  [][ /\ Phase' # Phase => << Phase, Phase' >> \in DocumentedTransitions
      /\ FlagChangesOnlyByLoginAndLogout ]_vars

\* C10 amended: as stated, except that a logout leaves an authenticated
\* session authenticating or locked, not anonymous, when authenticate calls
\* failed while it was authenticated (logout keeps the failure counter).
C10_TransitionsWithLogoutKeepingCounter ==
  [][ /\ Phase' # Phase =>
           \/ << Phase, Phase' >> \in DocumentedTransitions
           \/ /\ Phase = "authenticated"
              /\ Phase' \in {"authenticating", "locked"}
              /\ last'.op \in {"logout", "sidebar_logout"}
              /\ login_attempts' = login_attempts
              /\ login_attempts > 0
      /\ (Phase = "authenticated" /\ Phase' = "anonymous")
           => last'.op \in {"logout", "sidebar_logout"}
      /\ (Phase = "authenticating" /\ Phase' = "locked")
           => (AuthenticateStep /\ ~last'.ret.success)
      /\ (Phase = "locked" /\ Phase' = "authenticating") => now' > now
      /\ FlagChangesOnlyByLoginAndLogout ]_vars

\* a session that was authenticated has logged out and is locked
C10_Witness ==
  /\ last.op = "logout"
  /\ succeeded
  /\ Phase = "locked"

(***************************************************************************)
(* Claims about verify_password (checked under SpecVerify)                 *)
(***************************************************************************)
\* C7: for a stored value produced from a plaintext in one of the four
\* supported encodings, verify_password accepts a password if and only if it
\* is that plaintext; in particular it rejects the password that is equal to
\* the stored hash string of a hashed encoding.
C7_AcceptsOnlyThePlaintext ==
  (vp.op = "verify_password" /\ vp.encoding \in Encodings)
    => (vp.ok <=> vp.password = vp.plaintext)

\* the precedence of the rules of verify_password, as the documentation
\* states it
RuleOrder == << "bcrypt", "equal", "salted", "sha256", "fallback" >>

RuleApplies(rule, password, stored_hash) ==
  CASE rule = "bcrypt" ->
         /\ Len(stored_hash) >= 4
         /\ stored_hash[1] = "$" /\ stored_hash[2] = "2"
         /\ stored_hash[3] = "b" /\ stored_hash[4] = "$"
    [] rule = "equal" -> stored_hash = password
    [] rule = "salted" ->
         /\ \E i \in 1..Len(stored_hash) : stored_hash[i] = "$"
         /\ Len(stored_hash) >= 51
    [] rule = "sha256" -> Len(stored_hash) = 64
    [] OTHER -> TRUE

\* C8: verify_password is decided by the first rule, in the order bcrypt
\* marker, equality, salt$digest longer than 50, bare 64-character digest,
\* equality fallback, that applies to the stored value; no later rule
\* decides a value an earlier rule applies to, and a 64-character value that
\* no earlier rule applies to and that is not the SHA-256 digest of the
\* password is rejected by the bare-digest rule, never by the fallback.
C8_FirstApplicableRuleDecides ==
  vp.op = "verify_password" =>
    /\ \E k \in 1..Len(RuleOrder) :
         /\ RuleOrder[k] = vp.rule
         /\ RuleApplies(RuleOrder[k], vp.password, vp.stored_hash)
         /\ \A j \in 1..(k - 1) :
              ~RuleApplies(RuleOrder[j], vp.password, vp.stored_hash)
    /\ Len(vp.stored_hash) = 64 => vp.rule # "fallback"
    /\ ( /\ Len(vp.stored_hash) = 64
         /\ \A j \in 1..3 : ~RuleApplies(RuleOrder[j], vp.password, vp.stored_hash)
         /\ vp.stored_hash # Sha256Hex(vp.password) )
       => (vp.rule = "sha256" /\ ~vp.ok)

\* the 64 hex characters "deadbeef..." and the password "wrong" have been
\* rejected by the bare-digest rule
C8_Witness ==
  /\ vp.op = "verify_password"
  /\ vp.stored_hash = DeadBeef
  /\ vp.password = PwWrong
  /\ vp.rule = "sha256"
  /\ ~vp.ok

(***************************************************************************)
(* Claims about check_permissions (checked under SpecPermissions)          *)
(***************************************************************************)
\* C11: for an authenticated session, check_permissions(required_permission)
\* follows the role table: admin satisfies every permission, manager exactly
\* read/write/delete/manage_team, user exactly read/write, viewer exactly
\* read, and a role that is not in the table exactly read.
C11_RoleTable ==
  (last.op = "check_permissions" /\ authenticated)
    => LET role == user_info.role
           p == last.required_permission
       IN  last.ret <=>
             CASE role = "admin" -> TRUE
               [] role = "manager" -> p \in {"read", "write", "delete", "manage_team"}
               [] role = "user" -> p \in {"read", "write"}
               [] role = "viewer" -> p = "read"
               [] OTHER -> p = "read"

\* a session whose role is not in the table has been granted read
C11_Witness ==
  /\ last.op = "check_permissions"
  /\ authenticated
  /\ user_info.role = "guest"
  /\ last.required_permission = "read"
  /\ last.ret

(***************************************************************************)
(* Claims about the inference client (checked under SpecAI)                *)
(***************************************************************************)
\* a step that is a call of _make_api_call
ApiCallStep ==
  /\ last' # last \/ network_requests' # network_requests
  /\ last'.op = "make_api_call"

\* C12: a call whose message sequence and tag are those of an earlier call of
\* the same assistant that stored its response less than 300 seconds ago
\* issues no network request and returns the stored text; an identical call
\* made once 300 seconds have passed issues a new network request. A response
\* is stored with the time of the call and the text the call returns.
C12_ServedFromCacheWhileFresh ==
  [][ ApiCallStep =>
        LET k == CacheKey(last'.project_type, last'.messages)
            cache == assistant.cache
        IN  /\ (k \in DOMAIN cache /\ (now - cache[k][1]) * 60 < 300)
                 => /\ network_requests' = network_requests
                    /\ last'.ret = << cache[k][2] >>
            /\ (k \in DOMAIN cache /\ (now - cache[k][1]) * 60 >= 300)
                 => network_requests' = network_requests + 1
            /\ (k \notin DOMAIN cache) => network_requests' = network_requests + 1
            /\ last'.stored
                 => /\ last'.ret # None
                    /\ assistant'.cache[k] = << now, last'.ret[1] >> ]_vars

\* the second network request of a behaviour has been made for a prompt
\* whose stored response was 300 seconds old or older
C12_Witness ==
  /\ last.op = "make_api_call"
  /\ last.hit = "stale"
  /\ last.requested
  /\ last.stored
  /\ network_requests = 2

\* C13: _make_api_call never raises to its caller; when the post raises,
\* answers with a status other than 200 or with a malformed body, the call
\* returns None and leaves the cache as it was; the cache changes only in a
\* call that was answered with status 200 and a well-formed body.
C13_NeverRaisesAndCachesOnlySuccess ==
  [][ ApiCallStep =>
        LET net == last'.net
            failed == net.raises \/ net.status_code # 200 \/ ~net.well_formed
        IN  /\ ~last'.raised
            /\ (last'.requested /\ failed)
                 => (last'.ret = None /\ assistant'.cache = assistant.cache)
            /\ assistant'.cache # assistant.cache
                 => (last'.requested /\ ~failed) ]_vars

\* a call answered with status 200 and a malformed body has returned None
\* while the cache holds a stale entry for its prompt
C13_Witness ==
  /\ last.op = "make_api_call"
  /\ last.requested
  /\ last.net = PostMalformed
  /\ last.hit = "stale"
  /\ last.ret = None
  /\ ~last.raised

\* C17: the cache is process-wide: when the last call stored a response
\* less than 300 seconds ago, a call with the same message sequence and tag,
\* made by any session and after any number of script runs (each of which
\* constructs the dashboard and the assistant anew), returns the stored
\* text without a network request.
C17_CacheSharedAcrossScriptRuns ==
  [][ ( /\ ApiCallStep
        /\ last.op = "make_api_call"
        /\ last.stored
        /\ last'.messages = last.messages
        /\ last'.project_type = last.project_type
        /\ (now - last.time) * 60 < 300 )
        => /\ network_requests' = network_requests
           /\ last'.ret = last.ret ]_vars

(***************************************************************************)
(* Claims about the domain callers (checked under SpecCallers)             *)
(***************************************************************************)
\* the name of the field of the local statistics in the result of each caller
C14_StatsFieldOf(op) ==
  CASE op = "analyze_lead_data" -> "data_summary"
    [] op = "calculate_cpa_metrics" -> "basic_metrics"
    [] op = "analyze_broker_performance" -> "basic_analysis"
    [] OTHER -> "unified_summary"

\* the result holds the local statistics of the call
HasLocalStats(call) ==
  /\ C14_StatsFieldOf(call.op) \in DOMAIN call.result
  /\ call.result[C14_StatsFieldOf(call.op)] = call.stats

\* C14: for analyze_lead_data, calculate_cpa_metrics and
\* analyze_broker_performance and every dataset, when the inference client
\* fails the result holds the local statistics and a non-empty list of
\* recommendations, and is no error object.
C14_FallbackHasStatsAndRecommendations ==
  ( /\ last.op \in {"analyze_lead_data", "calculate_cpa_metrics",
                    "analyze_broker_performance"}
    /\ last.net \in Failures
    /\ last.hit # "fresh" )
    => /\ HasLocalStats(last)
       /\ "recommendations" \in DOMAIN last.result
       /\ Len(last.result["recommendations"]) > 0
       /\ "error" \notin DOMAIN last.result

\* the inference call of the caller returned a text that is not empty
ReturnedText(call) ==
  /\ call.op \in Callers
  /\ call.called
  /\ call.ret # None
  /\ call.ret[1] # << >>

\* C15: in each of the four callers, when the inference call returns a text
\* (not empty) that json.loads rejects, the result holds that text unchanged
\* under the field "analysis" and holds the local statistics.
C15_RawTextUnderAnalysis ==
  (ReturnedText(last) /\ JsonLoads(last.ret[1]).kind = "error")
    => /\ "analysis" \in DOMAIN last.result
       /\ last.result["analysis"] = last.ret[1]
       /\ HasLocalStats(last)

\* C16: when the inference call returns a text (not empty) that is no JSON
\* object (a text json.loads rejects, or a JSON list, string, number or
\* null), the result holds that text and the local statistics and is no
\* error object.
C16_ShapeErrorsPassThrough ==
  (ReturnedText(last) /\ JsonLoads(last.ret[1]).kind # "object")
    => /\ \E f \in {"analysis", "advanced_analysis", "unified_report"}
                     \cap DOMAIN last.result :
            last.result[f] = last.ret[1]
       /\ HasLocalStats(last)
       /\ "error" \notin DOMAIN last.result


(***************************************************************************)
(* Claims about faults during authenticate (checked under Spec)            *)
(***************************************************************************)
\* the positions in the search order of the stores that answered the last
\* call's lookup with a row
AnsweringStores ==
  { i \in 1..Len(SearchOrder) :
      /\ SearchOrder[i] \notin last.raised
      /\ Select(SearchOrder[i], last.username) # << >> }

\* C18: a store whose lookup raises counts as a store without a match and the
\* search goes on with the next store in order: an admitted call ends at the
\* first store that answers with a row, whatever stores raised before it,
\* and succeeds exactly when the password verifies against that row; it ends
\* as unknown user only when every store raised or held no row.
C18_LookupErrorIsNoMatch ==
  (last.op = "authenticate" /\ last.allowed)
    => IF AnsweringStores = {}
       THEN /\ last.cause = "not_found"
            /\ last.queried = SearchOrder
       ELSE LET first == CHOOSE i \in AnsweringStores :
                           \A j \in AnsweringStores : i <= j
                row == Select(SearchOrder[first], last.username)[1]
            IN  /\ last.project_found = SearchOrder[first]
                /\ last.queried = SubSeq(SearchOrder, 1, first)
                /\ \A j \in 1..(first - 1) :
                     \/ SearchOrder[j] \in last.raised
                     \/ Select(SearchOrder[j], last.username) = << >>
                /\ last.ret.success
                     <=> VerifyPassword(last.password, row.password_hash).ok
                /\ last.ret.success
                     => /\ last.ret.user_data = row
                        /\ authenticated
                        /\ user_info.project_type = SearchOrder[first]

\* the lookup of the first store raised, the store holds no row for the
\* user, and the user has been authenticated from the second store
C18_Witness ==
  /\ last.op = "authenticate"
  /\ last.raised = {"lead"}
  /\ Select("lead", last.username) = << >>
  /\ last.project_found = "cpa"
  /\ last.ret.success
  /\ authenticated
  /\ user_info.project_type = "cpa"

\* C19: an admitted call in which the lookups of all three stores raise ends
\* as a call for a user no store holds: it returns the same triple, adds one
\* to the failure counter and stamps the time, and establishes no session;
\* once the counter has reached the maximum the next call is denied.
C19_OutageIsUnknownUser ==
  [][ ( /\ AuthenticateStep
        /\ last'.op = "authenticate"
        /\ last'.allowed
        /\ last'.raised = Projects )
        => /\ last'.ret = AuthOutcome("nobody", last'.password, {}).ret
           /\ last'.ret = Failure(MsgNotFound)
           /\ last'.cause = "not_found"
           /\ login_attempts' = login_attempts + 1
           /\ last_login_attempt' = << now >>
           /\ UNCHANGED << authenticated, user_info, current_project >>
           /\ (login_attempts' >= MaxLoginAttempts) => ~CheckRateLimit' ]_vars

\* a user the first store holds has been rejected as unknown while all
\* stores raised, and that call has locked the session out
C19_Witness ==
  /\ last.op = "authenticate"
  /\ last.raised = Projects
  /\ last.cause = "not_found"
  /\ Select("lead", last.username) # << >>
  /\ login_attempts = MaxLoginAttempts
  /\ ~CheckRateLimit

ConfiguredWindow == Get(auth_config, "lockout_minutes", LockoutMinutes)

\* C21: check_rate_limit takes the maximum of failures and the lockout
\* window from the configuration: a call is denied exactly when the counter
\* has reached the configured maximum and less than the configured window
\* has passed since the last failure.
C21_WindowAndMaximumFromConfiguration ==
  [][ AuthenticateStep
        => ( last'.allowed
               <=> ~( /\ login_attempts
                          >= Get(auth_config, "max_login_attempts", 3)
                      /\ last_login_attempt # None
                      /\ now - last_login_attempt[1] < ConfiguredWindow ) ) ]_vars

(***************************************************************************)
(* Claims about the session state (checked under Spec)                     *)
(***************************************************************************)
\* C22: the counter decays after the lockout window: when a session that
\* has reached the maximum makes a failed attempt once the window has
\* elapsed, the rate limiter still admits the next attempt.
C22_CounterDecaysAfterWindow ==
  [][ ( /\ AuthenticateStep
        /\ login_attempts >= MaxLoginAttempts
        /\ ~InLockoutWindow
        /\ ~last'.ret.success )
        => CheckRateLimit' ]_vars

(***************************************************************************)
(* Claims about the local statistics (checked under SpecConversion)        *)
(***************************************************************************)
\* C23: the conversion rate is the float (rows whose stato is "converted")
\* / (rows) * 100 for a DataFrame with a column stato and at least one row,
\* and 0 for a DataFrame without rows or without the column; for 100 rows
\* of which 37 are converted it is exactly 37.0.
C23_ConversionRate ==
  (last.op = "calculate_conversion_rate")
    => LET data == last.data
           total == Len(data.stato)
           converted == Cardinality({ i \in 1..total : data.stato[i] = "converted" })
       IN  /\ ("stato" \in data.columns /\ total > 0)
                => last.ret = FloatMulInt(FloatDiv(converted, total), 100)
           /\ ("stato" \notin data.columns \/ total = 0)
                => last.ret = FloatOfInt(0)
           /\ ("stato" \in data.columns /\ total = 100 /\ converted = 37)
                => last.ret = FloatOfInt(37)

\* the rate of 100 rows with 37 converted rows and 63 rows spelled
\* "Converted" has been computed as 37.0
C23_Witness ==
  /\ last.op = "calculate_conversion_rate"
  /\ "stato" \in last.data.columns
  /\ Len(last.data.stato) = 100
  /\ Cardinality({ i \in 1..100 : last.data.stato[i] = "converted" }) = 37
  /\ last.data.stato[100] = "Converted"
  /\ last.ret = FloatOfInt(37)

\* C24: a login through the dashboard login page with a username and a
\* password the authentication service accepts returns True and leaves the
\* session authenticated; no such login returns False and leaves the
\* session authenticated.
C24_DashboardLoginAccepts ==
  (last.op = "dashboard_login")
    => /\ (CheckRateLimit /\ WouldBeAccepted(last.username, last.password))
            => (last.ret.success /\ authenticated)
       /\ ~(~last.ret.success /\ authenticated)

\* C25: in every reachable state the session is authenticated if and only
\* if user_info is not empty.
C25_AuthenticatedIffIdentity ==
  authenticated <=> (user_info # EmptyDict)

\* C26: logout_user changes only authenticated, user_info and
\* current_project; the failure counter and the timestamp of the last
\* failure stay, so the rate limiter answers after the logout as before it.
C26_LogoutKeepsRateLimit ==
  [][ (last'.op = "logout")
        => /\ ~authenticated'
           /\ user_info' = EmptyDict
           /\ current_project' = "lead"
           /\ UNCHANGED << login_attempts, last_login_attempt, user_role,
                           current_page, stores, calls, succeeded >>
           /\ CheckRateLimit' <=> CheckRateLimit ]_vars

\* a logout has ended a session while the rate limiter denies logins
C26_Witness ==
  /\ last.op = "logout"
  /\ ~authenticated
  /\ user_info = EmptyDict
  /\ login_attempts = MaxLoginAttempts
  /\ last_login_attempt # None
  /\ ~CheckRateLimit

\* C27: an authenticate call that returns failure leaves authenticated,
\* user_info and current_project as they were, also in a session that is
\* authenticated as another user.
C27_FailureKeepsSession ==
  [][ (AuthenticateStep /\ last'.op = "authenticate" /\ ~last'.ret.success)
        => UNCHANGED << authenticated, user_info, current_project >> ]_vars

\* a login of another user has failed in an authenticated session, which is
\* still the session of the first user
C27_Witness ==
  /\ last.op = "authenticate"
  /\ ~last.ret.success
  /\ last.cause = "wrong_password"
  /\ authenticated
  /\ user_info.username # last.username

\* C28: the failure counter is 0 exactly when the timestamp of the last
\* failure is unset, and it counts the authenticate calls that passed the
\* rate limiter and failed since the last successful call: it starts at 0,
\* a successful call sets it to 0, an admitted call that fails adds one, and
\* nothing else changes it.
C28_CounterCountsFailuresSinceSuccess ==
  /\ login_attempts = 0
  /\ []((login_attempts = 0) <=> (last_login_attempt = None))
  /\ [][ IF AuthenticateStep /\ last'.op = "authenticate"
         THEN login_attempts' =
                IF last'.ret.success THEN 0
                ELSE IF last'.allowed THEN login_attempts + 1
                ELSE login_attempts
         ELSE login_attempts' = login_attempts ]_vars

\* two admitted calls have failed since a successful call
C28_Witness ==
  /\ last.op = "authenticate"
  /\ succeeded
  /\ ~last.ret.success
  /\ last.allowed
  /\ login_attempts = 2
  /\ last_login_attempt = << now >>

(***************************************************************************)
(* Further claims about the inference client (checked under SpecAI)        *)
(***************************************************************************)
\* C29: a call that finds an entry for its prompt that is 300 seconds old
\* or older issues a network request; when the request fails the call
\* returns None, not the stored text, and the cache stays as it was; when
\* the request succeeds the entry holds the new text and the time of the
\* call.
C29_StaleEntryOnFailedRefresh ==
  [][ (ApiCallStep /\ last'.hit = "stale")
        => LET k == last'.key
               old == assistant.cache[k]
               net == last'.net
               failed == net.raises \/ net.status_code # 200 \/ ~net.well_formed
           IN  /\ network_requests' = network_requests + 1
               /\ failed => /\ last'.ret = None
                            /\ assistant'.cache = assistant.cache
                            /\ assistant'.cache[k] = old
               /\ ~failed => /\ last'.ret = << net.content >>
                             /\ assistant'.cache[k] = << now, net.content >>
                             /\ assistant'.cache[k][1] > old[1] ]_vars

\* the refresh of a stale entry was answered with status 500: the call has
\* returned None and the stale entry is in the cache
C29_Witness ==
  /\ last.op = "make_api_call"
  /\ last.hit = "stale"
  /\ last.net = PostStatus(500)
  /\ last.ret = None
  /\ last.key \in DOMAIN assistant.cache
  /\ ~Fresh(assistant.cache[last.key][1])

(***************************************************************************)
(* Further claims about verify_password (checked under SpecVerify)         *)
(***************************************************************************)
\* C30: for a stored value hash_password produced from a password p,
\* verify_password accepts p and rejects every password that is neither p
\* nor the stored string itself.
C30_HashVerifyRoundTrip ==
  (vp.op = "verify_password" /\ vp.encoding = "salted")
    => /\ \E salt \in {SaltA, SaltB} :
            vp.stored_hash = HashPassword(vp.plaintext, salt)
       /\ (vp.password = vp.plaintext) => vp.ok
       /\ (vp.password # vp.plaintext /\ vp.password # vp.stored_hash) => ~vp.ok

\* a password with a "$" has been verified against its own hash
C30_Witness ==
  /\ vp.op = "verify_password"
  /\ vp.encoding = "salted"
  /\ vp.stored_hash = HashPassword(PwDollar, SaltB)
  /\ vp.password = PwDollar
  /\ vp.rule = "salted"
  /\ vp.ok

=============================================================================
